---- MODULE Spec2Model ----
(***************************************************************************)
(* Model of mteb/abstasks/AbsTaskRetrieval.py: AbsTaskRetrieval.evaluate,  *)
(* AbsTaskRetrieval._evaluate_monolingual and the DRESModel adapter.       *)
(*                                                                         *)
(* Python strings that are only concatenated and compared (paths, names)   *)
(* are TLA+ strings.  Strings that are split or stripped are sequences of  *)
(* atoms, an atom being one whitespace character or a run of characters    *)
(* holding no leading or trailing whitespace.                              *)
(* Values computed by the external libraries (beir, llama_cpp, torch) are  *)
(* records naming the call and its arguments.                              *)
(***************************************************************************)
EXTENDS Integers, Sequences, FiniteSets, TLC

VARIABLES
    \* ---- AbsTaskRetrieval.evaluate ----
    pc,              \* position inside evaluate / _evaluate_monolingual
    beir,            \* TRUE iff the beir package can be imported
    data_loaded,     \* self.data_loaded
    is_multilingual, \* self.is_multilingual
    langs,           \* self.langs
    given,           \* the model argument of evaluate, as passed by the caller
    split,           \* argument split
    parallel_retrieval, \* argument parallel_retrieval
    kwargs,          \* **kwargs of evaluate
    model,           \* local variable model (rebound at lines 59, 64, 76)
    retriever,       \* local variable retriever
    li,              \* index of the current language in the loop of line 89
    retrieved,       \* the value retriever.retrieve returned for the current unit
    results,         \* local variable results of _evaluate_monolingual
    scores,          \* local variable scores of evaluate
    returned,        \* value returned by evaluate
    raised,          \* message of the exception evaluate raised, "" if none
    dirs,            \* directories of the file system
    files,           \* files of the file system: path -> content
    metrics,         \* the dicts the evaluator returned for the current unit
    calls,           \* external calls made so far, in order
    \* ---- DRESModel ----
    dpc,             \* position inside encode_queries / encode_corpus / llama_wrapper
    method,          \* the method called: encode_queries or encode_corpus
    self_model,      \* self.model, the wrapped model
    sep,             \* self.sep
    arg,             \* the queries or corpus argument
    batch_size,      \* the batch_size argument
    texts,           \* the list handed to llama_wrapper
    qi,              \* index of the loop of line 159
    all_embeddings,  \* local variable all_embeddings
    model_calls,     \* calls made on the wrapped model, in order
    encoded_value    \* the value returned to the caller

evalVars == <<pc, beir, data_loaded, is_multilingual, langs, given, split,
              parallel_retrieval, kwargs, model, retriever, li, retrieved,
              results, scores, returned, raised, dirs, files, metrics, calls>>

dresVars == <<dpc, method, self_model, sep, arg, batch_size, texts, qi, all_embeddings,
              model_calls, encoded_value>>

vars == <<evalVars, dresVars>>

\* ------------------------------------------------------------------------
\* Bounds
MaxLangs == 2
MaxDocs == 3
MaxTopK == 2
MaxScore == 1
MaxCutoffs == 3
MaxQueries == 2
MaxCorpus == 2

\* ------------------------------------------------------------------------
\* Python helpers
None == "None"

Min(a, b) == IF a < b THEN a ELSE b
Max(a, b) == IF a > b THEN a ELSE b

Range(s) == {s[i] : i \in 1..Len(s)}

SeqsUpTo(S, n) == UNION {[1..k -> S] : k \in 0..n}

\* s[:k]
SliceTo(s, k) ==
    IF k >= 0 THEN SubSeq(s, 1, Min(k, Len(s)))
    ELSE SubSeq(s, 1, Max(0, Len(s) + k))

\* kwargs.get(key, default): kw.has is the set of keys present
KwGet(kw, key, default) == IF key \in kw.has THEN kw[key] ELSE default

\* getattr(obj, name, default)
Getattr(obj, name, default) ==
    IF name \in DOMAIN obj.attrs THEN obj.attrs[name] ELSE default

\* callable(op): an attribute is a bound method ("method") or plain data
Callable(op) == op = "method"

\* ------------------------------------------------------------------------
\* Module constants
DRES_METHODS == <<"encode_queries", "encode_corpus">>

DefaultCorpusChunkSize == 50000

DefaultBatchSize == 128

\* the message of line 54 (its backquotes written as quotes)
ImportErrorMessage ==
    "Retrieval tasks require beir package. Please install it with 'pip install mteb[beir]'"

\* ------------------------------------------------------------------------
\* AbsTaskRetrieval.is_dres_compatible
RECURSIVE CompatibleFrom(_, _)
CompatibleFrom(m, i) ==
    IF i > Len(DRES_METHODS) THEN TRUE
    ELSE IF ~Callable(Getattr(m, DRES_METHODS[i], None)) THEN FALSE
    ELSE CompatibleFrom(m, i + 1)

\* variant: the attributes only have to exist (hasattr), callable or not
is_dres_compatible_hasattr(m) ==
    \A i \in 1..Len(DRES_METHODS) : DRES_METHODS[i] \in DOMAIN m.attrs

is_dres_compatible(m) == CompatibleFrom(m, 1)

\* DRESModel.__init__
DRESModel(m) == [cls |-> "DRESModel", model |-> m, sep |-> " "]

\* ------------------------------------------------------------------------
\* A Python dict whose iteration order matters is a sequence of <<key, value>>
\* pairs with distinct keys, in insertion order.

\* sorted(d, key=lambda x: d[x], reverse=True): the pairs of d by descending
\* value; the sort is stable, so equal values keep their order in d.
RECURSIVE InsertDesc(_, _)
InsertDesc(sorted, p) ==
    IF sorted = << >> THEN <<p>>
    ELSE IF Head(sorted)[2] >= p[2] THEN <<Head(sorted)>> \o InsertDesc(Tail(sorted), p)
    ELSE <<p>> \o sorted

\* variant: reverse=True is missing, the order is ascending
RECURSIVE InsertAsc(_, _)
InsertAsc(sorted, p) ==
    IF sorted = << >> THEN <<p>>
    ELSE IF Head(sorted)[2] <= p[2] THEN <<Head(sorted)>> \o InsertAsc(Tail(sorted), p)
    ELSE <<p>> \o sorted

RECURSIVE SortedByScoreAsc(_)
SortedByScoreAsc(d) ==
    IF d = << >> THEN << >>
    ELSE InsertAsc(SortedByScoreAsc(SubSeq(d, 1, Len(d) - 1)), d[Len(d)])

RECURSIVE SortedByScoreDesc(_)
SortedByScoreDesc(d) ==
    IF d = << >> THEN << >>
    ELSE InsertDesc(SortedByScoreDesc(SubSeq(d, 1, Len(d) - 1)), d[Len(d)])

\* lines 111-112: the entries of one query kept when top_k is given
TopKOfQuery(d, top_k) ==
    LET ranked == SortedByScoreDesc(d)
        doc_ids == {p[1] : p \in Range(SliceTo(ranked, top_k))}
    IN  SelectSeq(d, LAMBDA p : p[1] \in doc_ids)

\* lines 110-112: the loop over the queries of results
TruncateResults(res, top_k) == [qid \in DOMAIN res |-> TopKOfQuery(res[qid], top_k)]

\* variant: the language is left out of the file name
QrelsSavePath_NoLang(output_folder, name, lang) ==
    output_folder \o "/" \o name \o "_qrels.json"

\* lines 113-116
QrelsSavePath(output_folder, name, lang) ==
    IF lang = None THEN output_folder \o "/" \o name \o "_qrels.json"
    ELSE output_folder \o "/" \o name \o "_" \o lang \o "_qrels.json"

\* ------------------------------------------------------------------------
\* Metric tables.  A metric key such as NDCG@10 is the atom sequence
\* <<"NDCG", "@", "10">>.

\* k.split('@'): the pieces of k between the occurrences of "@"
RECURSIVE SplitAt(_, _)
SplitAt(k, cur) ==
    IF k = << >> THEN <<cur>>
    ELSE IF Head(k) = "@" THEN <<cur>> \o SplitAt(Tail(k), << >>)
    ELSE SplitAt(Tail(k), Append(cur, Head(k)))

Split(k) == SplitAt(k, << >>)

\* variant: the piece before the "@" is taken
Rekey_Name(prefix, d) == [i \in 1..Len(d) |-> <<<<prefix>> \o Split(d[i][1])[1], d[i][2]>>]

\* {f"{prefix}{k.split('@')[1]}": v for (k, v) in d.items()}, as the pairs
\* the comprehension produces, in order
Rekey(prefix, d) == [i \in 1..Len(d) |-> <<<<prefix>> \o Split(d[i][1])[2], d[i][2]>>]

\* the dict built from a sequence of pairs: a later pair replaces an earlier
\* one with the same key
RECURSIVE DictOf(_)
DictOf(pairs) ==
    IF pairs = << >> THEN << >>
    ELSE LET p == pairs[Len(pairs)]
         IN  (p[1] :> p[2]) @@ DictOf(SubSeq(pairs, 1, Len(pairs) - 1))

\* lines 123-129
ScoresTable(ndcg, map, recall, precision, mrr) ==
    DictOf(Rekey("ndcg_at_", ndcg) \o Rekey("map_at_", map)
           \o Rekey("recall_at_", recall) \o Rekey("precision_at_", precision)
           \o Rekey("mrr_at_", mrr))

\* ------------------------------------------------------------------------
\* The external evaluator (beir.retrieval.evaluation.EvaluateRetrieval)

\* retriever.k_values: the cutoffs of the retriever.  The library's default
\* list is longer; a one-digit and a two-digit cutoff are kept.
BeirKValues == <<1, 10>>

\* the sequence s without its repeated elements
RECURSIVE Dedup(_)
Dedup(s) ==
    IF s = << >> THEN << >>
    ELSE LET init == Dedup(SubSeq(s, 1, Len(s) - 1))
         IN  IF s[Len(s)] \in Range(init) THEN init ELSE Append(init, s[Len(s)])

\* one metric dict of the evaluator: an entry NAME@k per cutoff k, whose value
\* stands for the number the library computes from these arguments
MetricDict(fam, qrels, res, k_values, ignore) ==
    LET ks == Dedup(k_values)
    IN  [i \in 1..Len(ks) |->
            <<<<fam, "@", ToString(ks[i])>>,
              [metric |-> fam, at |-> ks[i], qrels |-> qrels, results |-> res,
               ignore_identical_ids |-> ignore]>>]

\* retriever.retrieve(corpus, queries) of the evaluated model: every query
\* gets every document of the corpus with a score; documents alternate
\* between two scores, so that scores tie and are not in descending order
BeirRetrieve(corpus, queries) ==
    [q \in queries |-> [i \in 1..Len(corpus) |-> <<corpus[i], i % 2>>]]

\* the rankings retrieve can return for one query: the first n documents of
\* the corpus, in the order they were inserted, with any scores
Rankings(corpus) ==
    UNION {{[i \in 1..n |-> <<corpus[i], f[i]>>] : f \in [1..n -> 0..MaxScore]} :
              n \in 0..Len(corpus)}

\* the mappings retrieve can return
AnyResults(corpus, queries) == [queries -> Rankings(corpus)]

\* the search engine built at lines 61-81
SearchEngine(m, parallel, kw) ==
    IF ~parallel
    THEN [cls |-> "DenseRetrievalExactSearch", model |-> m,
          batch_size |-> DefaultBatchSize,
          corpus_chunk_size |-> DefaultCorpusChunkSize, kwargs |-> kw]
    ELSE [cls |-> "DenseRetrievalParallelExactSearch", model |-> m,
          batch_size |-> DefaultBatchSize,
          corpus_chunk_size |-> None, kwargs |-> kw]

\* line 85
EvaluateRetrieval(engine, k_values) ==
    [cls |-> "EvaluateRetrieval", retriever |-> engine,
     score_function |-> "cos_sim", k_values |-> k_values]

\* ------------------------------------------------------------------------
\* The task's data (self.corpus, self.queries, self.relevant_docs), indexed
\* by language (None for a monolingual task) and split
TaskName == "Task"

TaskCorpus(lang, s) == [i \in 1..MaxDocs |-> <<lang, s, i>>]

TaskQueries(lang, s) == {<<lang, s, "q1">>, <<lang, s, "q2">>}

TaskRelevantDocs(lang, s) == [qrels_of |-> <<lang, s>>]

\* ------------------------------------------------------------------------
\* Inputs of evaluate

\* a model object: the attributes it has among DRES_METHODS, each a method
\* or plain data
ModelObjects ==
    {[cls |-> "Model", attrs |-> a] :
        a \in UNION {[S -> {"method", "data"}] : S \in SUBSET Range(DRES_METHODS)}}

LangNames == {"en", "de"}

\* self.langs: a list of languages, each listed once
LangLists ==
    {l \in SeqsUpTo(LangNames, MaxLangs) : \A i, j \in 1..Len(l) : i # j => l[i] # l[j]}

Splits == {"test", "dev"}

KwargKeys == {"save_qrels", "output_folder", "top_k"}

\* **kwargs: the keys present and their values (an absent key has the value
\* written here, which is never read)
KwargsSpace ==
    {kw \in [has : SUBSET KwargKeys, save_qrels : BOOLEAN, output_folder : {"", "out"},
             top_k : 0..MaxTopK] :
        /\ "save_qrels" \notin kw.has => kw.save_qrels = FALSE
        /\ ("output_folder" \in kw.has) = (kw.output_folder = "out")
        /\ "top_k" \notin kw.has => kw.top_k = 0}

\* the adapter is not in use
DresIdle ==
    /\ dpc = "idle"
    /\ method = None
    /\ self_model = None
    /\ sep = <<" ">>
    /\ arg = << >>
    /\ batch_size = DefaultBatchSize
    /\ texts = << >>
    /\ qi = 0
    /\ all_embeddings = << >>
    /\ model_calls = << >>
    /\ encoded_value = None

InitEval ==
    /\ pc = "import"
    /\ beir \in BOOLEAN
    /\ data_loaded \in BOOLEAN
    /\ is_multilingual \in BOOLEAN
    /\ langs \in LangLists
    /\ ~is_multilingual => langs = << >>
    /\ given \in ModelObjects
    /\ split \in Splits
    /\ parallel_retrieval \in BOOLEAN
    /\ kwargs \in KwargsSpace
    /\ model = given
    /\ retriever = None
    /\ li = 0
    /\ retrieved = << >>
    /\ results = << >>
    /\ scores = << >>
    /\ returned = None
    /\ raised = ""
    /\ dirs = {}
    /\ files = << >>
    /\ metrics = << >>
    /\ calls = << >>
    /\ DresIdle

\* the languages the loop of lines 88-95 goes through; a monolingual task is
\* evaluated once, with lang = None
Units == IF is_multilingual THEN langs ELSE <<None>>

\* variant: the failed import is not reported before the data is loaded
ImportBeir_Deferred ==
    /\ pc = "import"
    /\ pc' = "load"
    /\ UNCHANGED <<beir, data_loaded, is_multilingual, langs, given, split,
                   parallel_retrieval, kwargs, model, retriever, li, retrieved,
                   results, scores, returned, raised, dirs, files, calls, metrics>>
    /\ UNCHANGED dresVars

\* lines 51-54
ImportBeir ==
    /\ pc = "import"
    /\ IF beir
       THEN pc' = "load" /\ UNCHANGED raised
       ELSE pc' = "raised" /\ raised' = ImportErrorMessage
    /\ UNCHANGED <<beir, data_loaded, is_multilingual, langs, given, split,
                   parallel_retrieval, kwargs, model, retriever, li, retrieved,
                   results, scores, returned, dirs, files, calls, metrics>>
    /\ UNCHANGED dresVars

\* lines 56-57; load_data is the subclass's loader, which sets data_loaded
LoadData ==
    /\ pc = "load"
    /\ IF ~data_loaded
       THEN /\ data_loaded' = TRUE
            /\ calls' = Append(calls, [op |-> "load_data",
                                       parallel_retrieval |-> parallel_retrieval])
       ELSE UNCHANGED <<data_loaded, calls>>
    /\ pc' = "wrap"
    /\ UNCHANGED <<beir, is_multilingual, langs, given, split, parallel_retrieval,
                   kwargs, model, retriever, li, retrieved, results, scores,
                   returned, raised, dirs, files, metrics>>
    /\ UNCHANGED dresVars

\* line 59
WrapModel ==
    /\ pc = "wrap"
    /\ model' = IF is_dres_compatible(model) THEN model ELSE DRESModel(model)
    /\ pc' = "engine"
    /\ UNCHANGED <<beir, data_loaded, is_multilingual, langs, given, split,
                   parallel_retrieval, kwargs, retriever, li, retrieved, results,
                   scores, returned, raised, dirs, files, calls, metrics>>
    /\ UNCHANGED dresVars

\* lines 61-87: the search engine, the retriever and the empty scores
MakeRetriever ==
    /\ pc = "engine"
    /\ model' = SearchEngine(model, parallel_retrieval, kwargs)
    /\ retriever' = EvaluateRetrieval(model', BeirKValues)
    /\ scores' = << >>
    /\ li' = 1
    /\ pc' = "loop"
    /\ UNCHANGED <<beir, data_loaded, is_multilingual, langs, given, split,
                   parallel_retrieval, kwargs, retrieved, results, returned,
                   raised, dirs, files, calls, metrics>>
    /\ UNCHANGED dresVars

\* variant: every pass of the loop uses the first language
Lang_First == Units[1]

\* the language of the current unit
Lang == Units[li]

\* lines 89-92 / 94 and line 100: the unit's data is selected and retrieve is
\* called and returns res; the engine encodes the queries and the corpus with
\* its model
RetrieveReturning(res) ==
    /\ pc = "loop"
    /\ li <= Len(Units)
    /\ retrieved' = res
    /\ results' = res
    /\ calls' = calls \o
         <<[op |-> "retrieve", lang |-> Lang, corpus |-> TaskCorpus(Lang, split),
            queries |-> TaskQueries(Lang, split)],
           [op |-> "encode_queries", on |-> retriever.retriever.model],
           [op |-> "encode_corpus", on |-> retriever.retriever.model]>>
    /\ pc' = "save"
    /\ UNCHANGED <<beir, data_loaded, is_multilingual, langs, given, split,
                   parallel_retrieval, kwargs, model, retriever, li, scores,
                   returned, raised, dirs, files, metrics>>
    /\ UNCHANGED dresVars

\* retrieve with the evaluated model's scores
Retrieve == RetrieveReturning(BeirRetrieve(TaskCorpus(Lang, split), TaskQueries(Lang, split)))

\* retrieve with any scores
RetrieveAny ==
    /\ pc = "loop"
    /\ li <= Len(Units)
    /\ \E res \in AnyResults(TaskCorpus(Lang, split), TaskQueries(Lang, split)) :
          RetrieveReturning(res)

\* lines 104-119; the content of the file is the mapping json.dump is given
SaveQrels ==
    /\ pc = "save"
    /\ IF KwGet(kwargs, "save_qrels", FALSE)
       THEN LET output_folder == KwGet(kwargs, "output_folder", "results")
                saved == IF "top_k" \in kwargs.has
                         THEN TruncateResults(results, kwargs.top_k)
                         ELSE results
                qrels_save_path == QrelsSavePath(output_folder, TaskName, Lang)
            IN  /\ dirs' = dirs \cup {output_folder}
                /\ results' = saved
                /\ files' = (qrels_save_path :> saved) @@ files
                /\ calls' = calls \o
                     (IF output_folder \in dirs THEN << >>
                      ELSE <<[op |-> "makedirs", path |-> output_folder]>>) \o
                     <<[op |-> "write", path |-> qrels_save_path, lang |-> Lang]>>
       ELSE UNCHANGED <<dirs, results, files, calls>>
    /\ pc' = "evaluate"
    /\ UNCHANGED <<beir, data_loaded, is_multilingual, langs, given, split,
                   parallel_retrieval, kwargs, model, retriever, li, retrieved,
                   scores, returned, raised, metrics>>
    /\ UNCHANGED dresVars

\* lines 121-130 and the assignment of line 92 / 95
EvaluateUnit ==
    /\ pc = "evaluate"
    /\ LET relevant_docs == TaskRelevantDocs(Lang, split)
           ignore == KwGet(kwargs, "ignore_identical_ids", TRUE)
           M(fam) == MetricDict(fam, relevant_docs, results, retriever.k_values, ignore)
           table == ScoresTable(M("NDCG"), M("MAP"), M("Recall"), M("P"), M("MRR"))
       IN  /\ metrics' = [ndcg |-> M("NDCG"), map |-> M("MAP"), recall |-> M("Recall"),
                          precision |-> M("P"), mrr |-> M("MRR")]
           /\ scores' = IF is_multilingual THEN (Lang :> table) @@ scores ELSE table
           /\ calls' = calls \o
                <<[op |-> "evaluate", lang |-> Lang, relevant_docs |-> relevant_docs,
                   results |-> results],
                  [op |-> "evaluate_custom", lang |-> Lang, relevant_docs |-> relevant_docs,
                   results |-> results]>>
    /\ li' = li + 1
    /\ pc' = "loop"
    /\ UNCHANGED <<beir, data_loaded, is_multilingual, langs, given, split,
                   parallel_retrieval, kwargs, model, retriever, retrieved, results,
                   returned, raised, dirs, files>>
    /\ UNCHANGED dresVars

\* line 96
Return ==
    /\ pc = "loop"
    /\ li > Len(Units)
    /\ returned' = scores
    /\ pc' = "done"
    /\ UNCHANGED <<beir, data_loaded, is_multilingual, langs, given, split,
                   parallel_retrieval, kwargs, model, retriever, li, retrieved,
                   results, scores, raised, dirs, files, calls, metrics>>
    /\ UNCHANGED dresVars

NextEval ==
    \/ ImportBeir
    \/ LoadData
    \/ WrapModel
    \/ MakeRetriever
    \/ Retrieve
    \/ SaveQrels
    \/ EvaluateUnit
    \/ Return

SpecEval == InitEval /\ [][NextEval]_vars

\* ------------------------------------------------------------------------
\* _evaluate_monolingual up to the saved file, for any mapping retrieve may
\* return: a monolingual task whose retriever is built, asked to save its
\* results

CompatibleModel ==
    [cls |-> "Model", attrs |-> [encode_queries |-> "method", encode_corpus |-> "method"]]

\* evaluate has reached its loop (line 88) for a loaded monolingual task
AtLoop(kw, k_values) ==
    /\ pc = "loop"
    /\ beir = TRUE
    /\ data_loaded = TRUE
    /\ is_multilingual = FALSE
    /\ langs = << >>
    /\ given = CompatibleModel
    /\ split = "test"
    /\ parallel_retrieval = FALSE
    /\ kwargs = kw
    /\ model = SearchEngine(given, FALSE, kw)
    /\ retriever = EvaluateRetrieval(model, k_values)
    /\ li = 1
    /\ retrieved = << >>
    /\ results = << >>
    /\ scores = << >>
    /\ returned = None
    /\ raised = ""
    /\ dirs = {}
    /\ files = << >>
    /\ metrics = << >>
    /\ calls = << >>
    /\ DresIdle

InitSave ==
    \E kw \in KwargsSpace :
        /\ "save_qrels" \in kw.has /\ kw.save_qrels
        /\ "output_folder" \notin kw.has
        /\ AtLoop(kw, BeirKValues)

NextSave ==
    \/ RetrieveAny
    \/ SaveQrels

SpecSave == InitSave /\ [][NextSave]_vars

\* ------------------------------------------------------------------------
\* _evaluate_monolingual for any cutoffs of the retriever

KValuePool == {1, 3, 10, 100}

InitScores ==
    \E ks \in SeqsUpTo(KValuePool, MaxCutoffs), kw \in KwargsSpace :
        /\ kw.has = {}
        /\ AtLoop(kw, ks)

NextScores ==
    \/ Retrieve
    \/ SaveQrels
    \/ EvaluateUnit
    \/ Return

SpecScores == InitScores /\ [][NextScores]_vars


\* ------------------------------------------------------------------------
\* DRESModel

Whitespace == {" ", "\n"}

\* str.strip(): the leading and the trailing whitespace are removed
RECURSIVE LStrip(_)
LStrip(str) ==
    IF str # << >> /\ Head(str) \in Whitespace THEN LStrip(Tail(str)) ELSE str

RECURSIVE RStrip(_)
RStrip(str) ==
    IF str # << >> /\ str[Len(str)] \in Whitespace
    THEN RStrip(SubSeq(str, 1, Len(str) - 1))
    ELSE str

Strip(str) == RStrip(LStrip(str))

\* line 149
task_description ==
    <<"Given a web search query, retrieve relevant passages that answer the query">>

\* variant: the query is returned as it is
get_detailed_instruct_bare(task, query) == query

\* lines 144-145
get_detailed_instruct(task, query) ==
    <<"Instruct:", " ">> \o task \o <<"\n", "Query:", " ">> \o query

\* variant: no model is taken for a Llama
IsLlama_Never(m) == FALSE

\* isinstance(self.model, Llama), line 157
IsLlama(m) == m.cls = "Llama"

\* variant: the titles of a column-oriented corpus are ignored
DictSentences_NoTitle(corpus, separator) ==
    [i \in 1..Len(corpus.text) |-> Strip(corpus.text[i])]

\* lines 187-192: the sentences of a column-oriented corpus
DictSentences(corpus, separator) ==
    [i \in 1..Len(corpus.text) |->
        IF "title" \in DOMAIN corpus
        THEN Strip(corpus.title[i] \o separator \o corpus.text[i])
        ELSE Strip(corpus.text[i])]

\* lines 194-197: the sentences of a list of documents
ListSentences(corpus, separator) ==
    [i \in 1..Len(corpus) |->
        IF "title" \in DOMAIN corpus[i]
        THEN Strip(corpus[i].title \o separator \o corpus[i].text)
        ELSE Strip(corpus[i].text)]

\* self.model.create_embedding(query)["data"][0]["embedding"]
CreateEmbedding(text) == [embedding_of |-> text]

\* list(F.normalize(torch.FloatTensor(embeddings), p=2, dim=-1))
Normalize(embeddings) == [normalized |-> embeddings]

\* torch.FloatTensor(all_embeddings)
FloatTensor(rows) == [tensor |-> rows]

\* the value self.model.encode returns
ModelEncode(m, sentences, b) == [encoded_by |-> m.cls, sentences |-> sentences, batch_size |-> b]

\* Inputs of the adapter
WrappedModels == {[cls |-> c] : c \in {"Llama", "SentenceTransformer", "Encoder"}}

BatchSizes == {DefaultBatchSize, 2 * DefaultBatchSize}

\* the sep argument of __init__: the default and a line break
Separators == {<<" ">>, <<"\n">>}

TitleStrings == {<< >>, <<"t">>, <<" ", "t">>}

TextStrings == {<<"a">>, <<"a", " ">>, <<"\n", "a", " ", "b">>}

QueryStrings == {<< >>, <<"a">>, <<" ", "a", " ", "b">>}

Documents == [text : TextStrings] \cup [title : TitleStrings, text : TextStrings]

\* a corpus as a list of documents, or column-oriented with one list per
\* field, the lists of equal length
ListCorpora == {[type |-> "list", value |-> c] : c \in SeqsUpTo(Documents, MaxCorpus)}

DictCorpora ==
    {[type |-> "dict", value |-> c] :
        c \in UNION {[text : [1..n -> TextStrings]] \cup
                     [title : [1..n -> TitleStrings], text : [1..n -> TextStrings]] :
                         n \in 0..MaxCorpus}}

QueryLists == {[type |-> "list", value |-> q] : q \in SeqsUpTo(QueryStrings, MaxQueries)}

\* evaluate is not running
EvalIdle ==
    /\ pc = "idle"
    /\ beir = TRUE
    /\ data_loaded = FALSE
    /\ is_multilingual = FALSE
    /\ langs = << >>
    /\ given = None
    /\ split = "test"
    /\ parallel_retrieval = FALSE
    /\ kwargs = [has |-> {}, save_qrels |-> FALSE, output_folder |-> "", top_k |-> 0]
    /\ model = None
    /\ retriever = None
    /\ li = 0
    /\ retrieved = << >>
    /\ results = << >>
    /\ scores = << >>
    /\ returned = None
    /\ raised = ""
    /\ dirs = {}
    /\ files = << >>
    /\ metrics = << >>
    /\ calls = << >>

\* a DRESModel (lines 139-142) on which encode_queries or encode_corpus is
\* about to be called
InitDRES ==
    /\ dpc \in {"encode_queries", "encode_corpus"}
    /\ method = dpc
    /\ self_model \in WrappedModels
    /\ sep \in Separators
    /\ arg \in IF dpc = "encode_queries" THEN QueryLists ELSE ListCorpora \cup DictCorpora
    /\ batch_size \in BatchSizes
    /\ texts = << >>
    /\ qi = 0
    /\ all_embeddings = << >>
    /\ model_calls = << >>
    /\ encoded_value = None
    /\ EvalIdle

\* lines 174-182 and 147-151: encode_queries up to the call of llama_wrapper
EncodeQueries ==
    /\ dpc = "encode_queries"
    /\ texts' = [i \in 1..Len(arg.value) |->
                    get_detailed_instruct(task_description, arg.value[i])]
    /\ qi' = 1
    /\ all_embeddings' = << >>
    /\ dpc' = "llama_wrapper"
    /\ UNCHANGED <<method, self_model, sep, arg, batch_size, model_calls, encoded_value>>
    /\ UNCHANGED evalVars

\* lines 185-199 and 153-154: encode_corpus up to the call of llama_wrapper
EncodeCorpus ==
    /\ dpc = "encode_corpus"
    /\ texts' = IF arg.type = "dict"
                THEN DictSentences(arg.value, sep)
                ELSE ListSentences(arg.value, sep)
    /\ qi' = 1
    /\ all_embeddings' = << >>
    /\ dpc' = "llama_wrapper"
    /\ UNCHANGED <<method, self_model, sep, arg, batch_size, model_calls, encoded_value>>
    /\ UNCHANGED evalVars

\* lines 159-164: one pass of the loop over the texts, for a Llama
LlamaEmbed ==
    /\ dpc = "llama_wrapper"
    /\ IsLlama(self_model)
    /\ qi <= Len(texts)
    /\ model_calls' = Append(model_calls, [op |-> "create_embedding", text |-> texts[qi]])
    /\ all_embeddings' = Append(all_embeddings, Normalize(CreateEmbedding(texts[qi])))
    /\ qi' = qi + 1
    /\ UNCHANGED <<dpc, method, self_model, sep, arg, batch_size, texts, encoded_value>>
    /\ UNCHANGED evalVars

\* lines 165 and 172: the loop is over, the embeddings are returned
LlamaReturn ==
    /\ dpc = "llama_wrapper"
    /\ IsLlama(self_model)
    /\ qi > Len(texts)
    /\ encoded_value' = FloatTensor(all_embeddings)
    /\ dpc' = "done"
    /\ UNCHANGED <<method, self_model, sep, arg, batch_size, texts, qi, all_embeddings, model_calls>>
    /\ UNCHANGED evalVars

\* lines 167 and 172: any other model encodes the whole list
GenericEncode ==
    /\ dpc = "llama_wrapper"
    /\ ~IsLlama(self_model)
    /\ model_calls' = Append(model_calls,
                             [op |-> "encode", sentences |-> texts, batch_size |-> batch_size,
                              returns |-> ModelEncode(self_model, texts, batch_size)])
    /\ encoded_value' = ModelEncode(self_model, texts, batch_size)
    /\ dpc' = "done"
    /\ UNCHANGED <<method, self_model, sep, arg, batch_size, texts, qi, all_embeddings>>
    /\ UNCHANGED evalVars

NextDRES ==
    \/ EncodeQueries
    \/ EncodeCorpus
    \/ LlamaEmbed
    \/ LlamaReturn
    \/ GenericEncode

SpecDRES == InitDRES /\ [][NextDRES]_vars

\* ========================================================================
\* Properties of evaluate

BothCallable(m) ==
    \A name \in {"encode_queries", "encode_corpus"} :
        name \in DOMAIN m.attrs /\ m.attrs[name] = "method"

EngineBuilt == pc \in {"loop", "save", "evaluate", "done"}

\* the external calls with one of the given names, in call order
CallsOf(ops) == SelectSeq(calls, LAMBDA c : c.op \in ops)

SaveRequested == "save_qrels" \in kwargs.has /\ kwargs.save_qrels

\* C1: the search engine receives the given model itself iff encode_queries
\* and encode_corpus are both callable attributes of it, and a DRESModel
\* wrapping the given model in every other case.
C1_PassThroughIffCompatible ==
    EngineBuilt =>
        /\ (model.model = given) <=> BothCallable(given)
        /\ ~BothCallable(given) =>
              model.model = [cls |-> "DRESModel", model |-> given, sep |-> " "]
        /\ retriever.retriever = model

\* C1 witness: a model whose encode_corpus is present but not callable has
\* been wrapped and handed to the engine.
C1_Witness ==
    /\ pc = "loop"
    /\ DOMAIN given.attrs = {"encode_queries", "encode_corpus"}
    /\ given.attrs["encode_queries"] = "method"
    /\ given.attrs["encode_corpus"] = "data"
    /\ model.model.cls = "DRESModel"

\* C2: when beir cannot be imported, evaluate raises the installation error
\* at once: load_data is not called, the model is neither wrapped nor asked to
\* encode, nothing is written, and nothing is returned.
C2_ImportErrorFirst ==
    ~beir =>
        /\ pc \in {"import", "raised"}
        /\ pc = "raised" => raised = ImportErrorMessage
        /\ calls = << >>
        /\ model = given
        /\ retriever = None
        /\ files = << >> /\ dirs = {}
        /\ returned = None

\* C2 witness: the error was raised for a task whose data is not loaded, a
\* model that would have been wrapped, and a request to save the results.
C2_Witness ==
    /\ pc = "raised"
    /\ ~beir
    /\ ~data_loaded
    /\ ~BothCallable(given)
    /\ SaveRequested

\* the calls that retrieve, write the results file and score, in call order
UnitCalls == CallsOf({"retrieve", "write", "evaluate"})

ExpectedFolder == IF "output_folder" \in kwargs.has THEN kwargs.output_folder ELSE "results"

ExpectedPath(lang) ==
    IF lang = None THEN ExpectedFolder \o "/Task_qrels.json"
    ELSE ExpectedFolder \o "/Task_" \o lang \o "_qrels.json"

\* C4: a results file is written iff save_qrels is truthy; then each unit
\* writes exactly one file, after its retrieve and before its scoring, into
\* output_folder (default "results", created when absent), named after the
\* task and the language, and the files of different languages are distinct:
\* each language's file holds that language's results.
C4_ResultsFile ==
    /\ ~SaveRequested =>
          /\ CallsOf({"write", "makedirs"}) = << >>
          /\ files = << >> /\ dirs = {}
    /\ SaveRequested =>
          /\ \A i \in 1..Len(UnitCalls) :
                LET c == UnitCalls[i]
                    unit == Units[((i - 1) \div 3) + 1]
                IN  /\ c.op = <<"retrieve", "write", "evaluate">>[((i - 1) % 3) + 1]
                    /\ c.lang = unit
                    /\ c.op = "write" =>
                          /\ c.path = ExpectedPath(unit)
                          /\ c.path \in DOMAIN files
                          /\ ExpectedFolder \in dirs
          /\ Len(CallsOf({"makedirs"})) = IF Len(CallsOf({"write"})) > 0 THEN 1 ELSE 0
          /\ \A i \in 1..Len(calls) :
                calls[i].op = "makedirs" =>
                    /\ calls[i].path = ExpectedFolder
                    /\ calls[i + 1].op = "write"
          /\ DOMAIN files = {ExpectedPath(Units[j]) : j \in 1..(Len(UnitCalls) + 1) \div 3}
          /\ \A j \in 1..(Len(UnitCalls) + 1) \div 3 :
                \A q \in DOMAIN files[ExpectedPath(Units[j])] : q[1] = Units[j]

\* C4 witness: a multilingual run over two different languages has saved a
\* file for each of them.
C4_Witness ==
    /\ pc = "done"
    /\ SaveRequested
    /\ is_multilingual
    /\ Len(langs) = 2 /\ langs[1] # langs[2]
    /\ Cardinality(DOMAIN files) = 2

\* C8 (as claimed): the results handed to retriever.evaluate and
\* retriever.evaluate_custom are the mapping retriever.retrieve returned,
\* whatever save_qrels, output_folder and top_k are.
C8_SavingLeavesResults ==
    (pc = "loop" /\ li > 1) =>
        /\ calls[Len(calls)].op = "evaluate_custom"
        /\ calls[Len(calls)].results = retrieved
        /\ calls[Len(calls) - 1].op = "evaluate"
        /\ calls[Len(calls) - 1].results = retrieved

\* the calls that retrieve and score, in call order
ScoringCalls == CallsOf({"retrieve", "evaluate", "evaluate_custom"})

MetricKeys ==
    {<<p, k>> : p \in {"ndcg_at_", "map_at_", "recall_at_", "precision_at_", "mrr_at_"},
                k \in {"1", "10"}}

\* the table holds every metric key, each value computed from the relevance
\* judgments and a results mapping of the given language and the split
TableOf(table, lang) ==
    /\ DOMAIN table = MetricKeys
    /\ \A key \in DOMAIN table :
          /\ table[key].qrels = [qrels_of |-> <<lang, split>>]
          /\ DOMAIN table[key].results = {<<lang, split, "q1">>, <<lang, split, "q2">>}
          /\ \A q \in DOMAIN table[key].results :
                \A i \in 1..Len(table[key].results[q]) :
                    /\ table[key].results[q][i][1][1] = lang
                    /\ table[key].results[q][i][1][2] = split

\* C10: retrieve is called once per language, in the order of self.langs, on
\* that language's corpus and queries of the split, and each language is
\* scored before the next is retrieved; a multilingual evaluate returns one
\* table per language, computed from that language's data; a monolingual
\* evaluate calls retrieve once and returns the table itself.
C10_OnePassPerLanguage ==
    /\ \A i \in 1..Len(ScoringCalls) :
          LET c == ScoringCalls[i]
              unit == Units[((i - 1) \div 3) + 1]
          IN  /\ c.op = <<"retrieve", "evaluate", "evaluate_custom">>[((i - 1) % 3) + 1]
              /\ c.lang = unit
              /\ c.op = "retrieve" =>
                    /\ c.corpus = [d \in 1..MaxDocs |-> <<unit, split, d>>]
                    /\ c.queries = {<<unit, split, "q1">>, <<unit, split, "q2">>}
              /\ c.op # "retrieve" => c.relevant_docs = [qrels_of |-> <<unit, split>>]
    /\ pc = "done" =>
          /\ Len(ScoringCalls) = 3 * Len(Units)
          /\ IF is_multilingual
             THEN /\ DOMAIN returned = {langs[i] : i \in 1..Len(langs)}
                  /\ \A lang \in DOMAIN returned : TableOf(returned[lang], lang)
             ELSE /\ Len(CallsOf({"retrieve"})) = 1
                  /\ TableOf(returned, None)

\* C10 witness: a multilingual evaluate over two different languages has
\* returned.
C10_Witness ==
    /\ pc = "done"
    /\ is_multilingual
    /\ Len(langs) = 2 /\ langs[1] # langs[2]
    /\ Len(CallsOf({"retrieve"})) = 2


\* ========================================================================
\* Properties of the saved file and of the scores table

TopKGiven == SaveRequested /\ "top_k" \in kwargs.has

SavedFile == files[ExpectedPath(Lang)]

\* the entries of the retrieved ranking r whose document is not in saved
LeftOut(r, saved) ==
    SelectSeq(r, LAMBDA p : \A j \in 1..Len(saved) : saved[j][1] # p[1])

\* C3: with save_qrels and top_k, the file holds for every query exactly
\* min(top_k, n) of the n retrieved documents, each with its retrieved score,
\* and no saved document scores lower than a retrieved document left out.
C3_SavedTopK ==
    (pc = "evaluate" /\ TopKGiven) =>
        /\ DOMAIN SavedFile = DOMAIN retrieved
        /\ \A q \in DOMAIN retrieved :
              LET r == retrieved[q]
                  saved == SavedFile[q]
              IN  /\ Len(saved) = Min(kwargs.top_k, Len(r))
                  /\ \A i \in 1..Len(saved) : \E j \in 1..Len(r) : saved[i] = r[j]
                  /\ \A i, j \in 1..Len(saved) : i # j => saved[i][1] # saved[j][1]
                  /\ \A i \in 1..Len(saved) :
                        \A j \in 1..Len(LeftOut(r, saved)) :
                            saved[i][2] >= LeftOut(r, saved)[j][2]

\* C3 witness: a file was saved in which, for some query, the cut falls
\* between two documents of equal score while a higher-scored document was
\* retrieved after them.
C3_Witness ==
    /\ pc = "evaluate"
    /\ TopKGiven
    /\ kwargs.top_k = 2
    /\ \E q \in DOMAIN retrieved :
          /\ Len(retrieved[q]) = 3
          /\ retrieved[q][1][2] = retrieved[q][2][2]
          /\ retrieved[q][3][2] > retrieved[q][1][2]
          /\ Len(SavedFile[q]) = 2

MetricPrefix ==
    [ndcg |-> "ndcg_at_", map |-> "map_at_", recall |-> "recall_at_",
     precision |-> "precision_at_", mrr |-> "mrr_at_"]

UnitScored == pc = "loop" /\ li = 2 /\ ~is_multilingual

\* C5: the table of a unit has, for every entry NAME@k -> v the evaluator
\* returned for nDCG, MAP, Recall, Precision and MRR, the key ndcg_at_k,
\* map_at_k, recall_at_k, precision_at_k or mrr_at_k with the value v; no two
\* entries share a key and the table has no other key.
C5_FlatTable ==
    UnitScored =>
        /\ \A f \in DOMAIN MetricPrefix :
              \A i \in 1..Len(metrics[f]) :
                  LET name_at_k == metrics[f][i][1]
                      key == <<MetricPrefix[f], name_at_k[3]>>
                  IN  /\ name_at_k[2] = "@"
                      /\ key \in DOMAIN scores
                      /\ scores[key] = metrics[f][i][2]
        /\ Cardinality(DOMAIN scores) =
              Len(metrics.ndcg) + Len(metrics.map) + Len(metrics.recall)
              + Len(metrics.precision) + Len(metrics.mrr)

\* C5 witness: a unit was scored at three cutoffs, one of them 100.
C5_Witness ==
    /\ UnitScored
    /\ Len(metrics.ndcg) = 3
    /\ <<"mrr_at_", "100">> \in DOMAIN scores


\* ========================================================================
\* Properties of DRESModel

\* the texts the wrapped model was given, in order
SentTexts ==
    IF self_model.cls = "Llama"
    THEN [i \in 1..Len(model_calls) |-> model_calls[i].text]
    ELSE model_calls[1].sentences

\* the documents of the corpus argument, one record per document
DocsOf(corpus) ==
    IF corpus.type = "list" THEN corpus.value
    ELSE [i \in 1..Len(corpus.value.text) |->
            IF "title" \in DOMAIN corpus.value
            THEN [title |-> corpus.value.title[i], text |-> corpus.value.text[i]]
            ELSE [text |-> corpus.value.text[i]]]

\* t is str without its leading and trailing whitespace
IsStripped(t, str) ==
    \E i \in 1..(Len(str) + 1), j \in 0..Len(str) :
        /\ t = SubSeq(str, i, j)
        /\ \A k \in 1..(i - 1) : str[k] \in {" ", "\n"}
        /\ \A k \in (j + 1)..Len(str) : str[k] \in {" ", "\n"}
        /\ t # << >> => (t[1] \notin {" ", "\n"} /\ t[Len(t)] \notin {" ", "\n"})

\* C6: encode_corpus gives the model one sentence per document, in order:
\* the stripped title + sep + text of a document with a title, the stripped
\* text of one without (sep being the adapter's separator); a column-oriented
\* corpus gives the sentences of the list of its documents.
C6_CorpusSentences ==
    (dpc = "done" /\ method = "encode_corpus") =>
        LET docs == DocsOf(arg)
        IN  /\ Len(SentTexts) = Len(docs)
            /\ \A i \in 1..Len(docs) :
                  IF "title" \in DOMAIN docs[i]
                  THEN IsStripped(SentTexts[i], docs[i].title \o sep \o docs[i].text)
                  ELSE IsStripped(SentTexts[i], docs[i].text)

\* C6 witness: a column-oriented corpus of two titled documents, the first
\* title starting with a blank, was encoded.
C6_Witness ==
    /\ dpc = "done"
    /\ method = "encode_corpus"
    /\ arg.type = "dict"
    /\ "title" \in DOMAIN arg.value
    /\ Len(arg.value.text) = 2
    /\ arg.value.title[1] = <<" ", "t">>
    /\ arg.value.title[2] = << >>

WrapperEntered == dpc \in {"llama_wrapper", "done"}

\* C7: for a Llama, create_embedding is called once per text, in order,
\* encode is never called and the result has one vector per text, in order;
\* for any other model, encode is called once with all the texts and the
\* batch_size, and what it returns is returned.
C7_OneEncodingPath ==
    WrapperEntered =>
        IF self_model.cls = "Llama"
        THEN /\ Len(model_calls) <= Len(texts)
             /\ \A i \in 1..Len(model_calls) :
                   /\ model_calls[i].op = "create_embedding"
                   /\ model_calls[i].text = texts[i]
             /\ dpc = "done" =>
                   /\ Len(model_calls) = Len(texts)
                   /\ Len(encoded_value.tensor) = Len(texts)
                   /\ \A i \in 1..Len(texts) :
                         encoded_value.tensor[i] = [normalized |-> [embedding_of |-> texts[i]]]
        ELSE /\ dpc # "done" => model_calls = << >>
             /\ dpc = "done" =>
                   /\ Len(model_calls) = 1
                   /\ model_calls[1].op = "encode"
                   /\ model_calls[1].sentences = texts
                   /\ model_calls[1].batch_size = batch_size
                   /\ encoded_value = model_calls[1].returns

\* C7 witness: a Llama has embedded two texts.
C7_Witness ==
    /\ dpc = "done"
    /\ self_model.cls = "Llama"
    /\ Len(texts) = 2
    /\ Len(model_calls) = 2

\* C9: encode_queries gives the model one text per query, in order, each
\* 'Instruct: <task description>\nQuery: <query>', whatever the model's
\* class; encode_corpus gives it sentences without the instruction.
C9_QueriesInstructed ==
    dpc = "done" =>
        IF method = "encode_queries"
        THEN /\ Len(SentTexts) = Len(arg.value)
             /\ \A i \in 1..Len(arg.value) :
                   SentTexts[i] =
                       <<"Instruct:", " ",
                         "Given a web search query, retrieve relevant passages that answer the query",
                         "\n", "Query:", " ">> \o arg.value[i]
        ELSE /\ Len(SentTexts) = Len(DocsOf(arg))
             /\ \A i \in 1..Len(SentTexts) :
                   /\ "Instruct:" \notin Range(SentTexts[i])
                   /\ "Query:" \notin Range(SentTexts[i])

\* C9 witness: a model with a generic encode method was given two instructed
\* queries.
C9_Witness ==
    /\ dpc = "done"
    /\ method = "encode_queries"
    /\ self_model.cls = "Encoder"
    /\ Len(arg.value) = 2
    /\ arg.value[1] # arg.value[2]

====
